---- MODULE Spec2Model ----
(***************************************************************************)
(* Model of the Logger of logger.h / logger.cpp: a circular send buffer    *)
(* filled by enqueue() from the main loop and from nested interrupt        *)
(* handlers with LDREX/STREX, and drained by UART-DMA transfers started    *)
(* by startTransfer() from process() and from the transfer-complete        *)
(* callback.                                                               *)
(*                                                                         *)
(* Execution contexts form a stack: the main loop at the                   *)
(* bottom, and above it the handlers that preempted it.  Only the top      *)
(* frame runs; a handler of higher priority may be pushed at any           *)
(* instruction boundary and runs to its return.  A frame records whether   *)
(* its priority masks the transfer-complete interrupt; every handler       *)
(* nested above a masking frame masks it too.  Exception entry and return  *)
(* clear the exclusive monitor (ARMv7-M).                                  *)
(***************************************************************************)
EXTENDS Integers, Sequences, FiniteSets, TLC

\* ---- bounds of the model ------------------------------------------------
Cap == 3          \* SEND_BUFFER_SIZE, scaled down
MaxLen == 2       \* longest message handed to enqueue
MaxMsgs == 2      \* number of enqueue calls made in a run
MaxDepth == 2     \* number of handlers nested above the main loop

\* ---- program constants ----------------------------------------------------
U16 == 65536      \* uint16_t arithmetic

SEND_BUFFER_SIZE == Cap

VARIABLES
    m_send_buffer,     \* [0..Cap-1 -> byte]
    m_write_pos,
    m_read_pos,
    m_new_read_pos,
    m_is_sending,
    m_enqueue_guard,
    m_missed_count,
    monitor,           \* the local exclusive monitor of LDREX/STREX
    stack,             \* the active execution contexts, main loop first
    hw,                \* the UART-DMA transmitter
    nextMsg,           \* number of the next enqueue call
    pending,           \* history: reserved bytes the transmitter has not taken, in reservation order
    queued,            \* history: bytes reserved minus bytes read_pos was advanced over
    unwritten,         \* history: indices reserved and not yet copied
    writer             \* history: enqueue call that wrote an index since read_pos last passed it

vars == <<m_send_buffer, m_write_pos, m_read_pos, m_new_read_pos, m_is_sending,
          m_enqueue_guard, m_missed_count, monitor, stack, hw, nextMsg,
          pending, queued, unwritten, writer>>

logger == <<m_send_buffer, m_write_pos, m_read_pos, m_new_read_pos, m_is_sending,
            m_enqueue_guard, m_missed_count>>

hist == <<pending, queued, unwritten, writer>>

\* ---- pure helpers -----------------------------------------------------------

\* the k-th byte of the message of enqueue call id
StrByte(id, k) == <<id, k>>

NoByte == <<0, 0>>

\* faulty variant: the position is advanced without wrapping
advancePosNoWrap(pos, step) == pos + step

advancePos(pos, step) == (pos + step) % SEND_BUFFER_SIZE

\* availableSpace reads m_read_pos twice: once for the test, once for the value
\* faulty variant: the case of write_pos below read_pos is forgotten
availableTestAlways(write_pos, rp) == TRUE

availableTest(write_pos, rp) == write_pos >= rp

\* faulty variant: the slot that is always left empty is given away
availableValueNoSlot(ge, write_pos, rp) ==
    IF ge THEN (SEND_BUFFER_SIZE - (write_pos - rp)) % U16
          ELSE (rp - write_pos) % U16

availableValue(ge, write_pos, rp) ==
    IF ge THEN (SEND_BUFFER_SIZE - (write_pos - rp) - 1) % U16
          ELSE (rp - write_pos - 1) % U16

availableSpace(write_pos, rp) == availableValue(availableTest(write_pos, rp), write_pos, rp)

\* faulty variant: the reservation advances without the space check
NewWritePosNoCheck(avail, write_pos, length) == advancePos(write_pos, length)

NewWritePos(avail, write_pos, length) ==
    IF avail >= length THEN advancePos(write_pos, length) ELSE write_pos

\* faulty variant: the caller is never taken to be a handler
NotInISR(f) == FALSE

isInISR(f) == f.kind # "main"

\* faulty variant: the m_is_sending test is inverted
ProcessInverted(sending, f) == ~sending \/ f.kind # "main"

\* faulty variant: process() forgets to test m_is_sending
ProcessChecksIsrOnly(sending, f) == f.kind # "main"

\* faulty variant: process() forgets to test isInISR()
ProcessChecksSendingOnly(sending, f) == sending

ProcessReturnsEarly(sending, f) == sending \/ isInISR(f)

\* the value ATOMIC_INCH stores
ATOMIC_INCH(val) == (val + 1) % U16

\* faulty variant: the decrement is left out
ATOMIC_DECH_Skipped(val) == val

\* the value ATOMIC_DECH stores
ATOMIC_DECH(val) == (val - 1) % U16

\* faulty variant: the exclusive access is lost before every store-conditional
StrexNever(mon) == FALSE

\* faulty variant: a plain store in place of the store-conditional
StrexAlways(mon) == TRUE

StrexOK(mon) == mon

\* the indices start, start+1, ... (n of them), circularly
Range(start, n) == { (start + k) % Cap : k \in 0..(n-1) }

\* ---- frames -------------------------------------------------------------------

Frame(kind, masks, pc) ==
    [kind |-> kind, masks |-> masks, pc |-> pc, id |-> 0, len |-> 0, tmp |-> 0,
     wp |-> 0, nwp |-> 0, ge |-> FALSE, sp |-> 0,
     declined |-> FALSE, missed |-> 0, target |-> 0, retried |-> FALSE,
     chain |-> FALSE, base |-> 0, res |-> 0, intr |-> FALSE,
     rp |-> 0, torn |-> FALSE]

Top == stack[Len(stack)]

SetTop(f) == [stack EXCEPT ![Len(stack)] = f]

At(pc) == Top.pc = pc

Goto(pc) == stack' = SetTop([Top EXCEPT !.pc = pc])

\* the stack as a handler entry leaves it: the preempted frame notes (history)
\* that it was interrupted between its LDREXH and STREXH of m_write_pos
Interrupted == SetTop([Top EXCEPT !.intr = (Top.pc \in {"r_a1", "r_a2", "r_sc"})])

\* sampled and pending are history: the send_pos and the m_new_read_pos of the request
HwIdle == [busy |-> FALSE, start |-> 0, len |-> 0, drained |-> FALSE, sampled |-> 0, pending |-> 0]

\* ---- initial state ------------------------------------------------------------

Init ==
    /\ m_send_buffer = [i \in 0..(Cap-1) |-> NoByte]
    /\ m_write_pos = 0
    /\ m_read_pos = 0
    /\ m_new_read_pos = 0
    /\ m_is_sending = FALSE
    /\ m_enqueue_guard = 0
    /\ m_missed_count = 0
    /\ monitor = FALSE
    /\ stack = << Frame("main", FALSE, "idle") >>
    /\ hw = HwIdle
    /\ nextMsg = 1
    /\ pending = << >>
    /\ queued = 0
    /\ unwritten = {}
    /\ writer = [i \in 0..(Cap-1) |-> 0]

\* the state after earlier messages were enqueued and transmitted: the buffer is
\* empty again, with its cursors at any index
InitAnywhere ==
    /\ \E p \in 0..(Cap-1) :
          /\ m_write_pos = p
          /\ m_read_pos = p
          /\ m_new_read_pos = p
    /\ m_send_buffer = [i \in 0..(Cap-1) |-> NoByte]
    /\ m_is_sending = FALSE
    /\ m_enqueue_guard = 0
    /\ m_missed_count = 0
    /\ monitor = FALSE
    /\ stack = << Frame("main", FALSE, "idle") >>
    /\ hw = HwIdle
    /\ nextMsg = 1
    /\ pending = << >>
    /\ queued = 0
    /\ unwritten = {}
    /\ writer = [i \in 0..(Cap-1) |-> 0]

\* ---- entering the logger ------------------------------------------------------

\* the main loop calls logger.log(...) with a message of length len
MainEnqueue ==
    /\ Top.kind = "main" /\ At("idle")
    /\ nextMsg <= MaxMsgs
    /\ \E len \in 0..MaxLen :
         stack' = SetTop([Frame("main", FALSE, "g_ll") EXCEPT !.id = nextMsg, !.len = len])
    /\ nextMsg' = nextMsg + 1
    /\ UNCHANGED <<logger, monitor, hw, hist>>

\* the main loop polls logger.process()
MainProcess ==
    /\ Top.kind = "main" /\ At("idle")
    /\ Goto("proc")
    /\ UNCHANGED <<logger, monitor, hw, nextMsg, hist>>

\* an interrupt handler of higher priority preempts and calls logger.log(...);
\* its priority may or may not mask the transfer-complete interrupt
IsrEnqueue ==
    /\ nextMsg <= MaxMsgs
    /\ Len(stack) <= MaxDepth
    /\ \E masks \in BOOLEAN, len \in 0..MaxLen :
         /\ Top.masks => masks
         /\ stack' = Append(Interrupted,
                            [Frame("isr", masks, "g_ll") EXCEPT !.id = nextMsg, !.len = len])
    /\ nextMsg' = nextMsg + 1
    /\ monitor' = FALSE
    /\ UNCHANGED <<logger, hw, hist>>

\* ---- enqueue --------------------------------------------------------------------

\* ATOMIC_INCH(m_enqueue_guard): LDREXH
GuardIncLL ==
    /\ At("g_ll")
    /\ stack' = SetTop([Top EXCEPT !.pc = "g_sc", !.tmp = m_enqueue_guard])
    /\ monitor' = TRUE
    /\ UNCHANGED <<logger, hw, nextMsg, hist>>

\* ATOMIC_INCH(m_enqueue_guard): STREXH
GuardIncSC ==
    /\ At("g_sc")
    /\ IF StrexOK(monitor)
         THEN /\ m_enqueue_guard' = ATOMIC_INCH(Top.tmp)
              /\ stack' = SetTop([Top EXCEPT !.pc = "r_ll", !.tmp = 0])
         ELSE /\ m_enqueue_guard' = m_enqueue_guard
              /\ stack' = SetTop([Top EXCEPT !.pc = "g_ll", !.tmp = 0])
    /\ monitor' = FALSE
    /\ UNCHANGED <<m_send_buffer, m_write_pos, m_read_pos, m_new_read_pos, m_is_sending,
                   m_missed_count, hw, nextMsg, hist>>

\* write_pos = __LDREXH(&m_write_pos)
ReserveLL ==
    /\ At("r_ll")
    /\ stack' = SetTop([Top EXCEPT !.pc = "r_a1", !.wp = m_write_pos])
    /\ monitor' = TRUE
    /\ UNCHANGED <<logger, hw, nextMsg, hist>>

\* availableSpace: write_pos >= m_read_pos ?
ReserveTest ==
    /\ At("r_a1")
    /\ stack' = SetTop([Top EXCEPT !.pc = "r_a2", !.ge = availableTest(Top.wp, m_read_pos),
                          !.rp = m_read_pos])
    /\ UNCHANGED <<logger, monitor, hw, nextMsg, hist>>

\* availableSpace: the value, and new_write_pos
ReserveCompute ==
    /\ At("r_a2")
    /\ stack' = SetTop([Top EXCEPT !.pc = "r_sc", !.ge = FALSE,
                          !.rp = 0, !.torn = (m_read_pos # Top.rp),
                          !.nwp = NewWritePos(availableValue(Top.ge, Top.wp, m_read_pos),
                                              Top.wp, Top.len)])
    /\ UNCHANGED <<logger, monitor, hw, nextMsg, hist>>

\* faulty variant: the bytes are always copied in a single loop
SingleLoopAlways(write_pos, new_write_pos) == TRUE

\* if (new_write_pos > write_pos): the reserved range ends before the end of the buffer
SingleLoop(write_pos, new_write_pos) == new_write_pos > write_pos

\* the store of new_write_pos into m_write_pos, done if ok, and the branch on
\* its result: the copy, the missed count, or the loop again
Reserve(ok) ==
    /\ At("r_sc")
    /\ monitor' = FALSE
    /\ IF ok
         THEN /\ m_write_pos' = Top.nwp
              /\ IF Top.wp # Top.nwp
                   THEN /\ pending' = pending \o [k \in 1..Top.len |-> StrByte(Top.id, k-1)]
                        /\ queued' = queued + Top.len
                        /\ unwritten' = unwritten \cup Range(Top.wp, Top.len)
                        /\ stack' = SetTop([Top EXCEPT
                               !.pc = IF SingleLoop(Top.wp, Top.nwp) THEN "copy1" ELSE "copy2a",
                               !.nwp = 0, !.tmp = 0, !.base = Top.wp, !.res = Top.len,
                               !.intr = FALSE, !.torn = FALSE,
                               !.declined = Top.len > availableSpace(m_write_pos, m_read_pos)])
                   ELSE /\ UNCHANGED <<pending, queued, unwritten>>
                        /\ stack' = SetTop([Top EXCEPT !.pc = "m_ll", !.nwp = 0, !.wp = 0,
                               !.intr = FALSE, !.torn = FALSE,
                               !.declined = Top.len > availableSpace(m_write_pos, m_read_pos)])
         ELSE /\ stack' = SetTop([Top EXCEPT !.pc = "r_ll", !.nwp = 0, !.wp = 0, !.retried = TRUE,
                                         !.intr = FALSE, !.torn = FALSE])
              /\ UNCHANGED <<m_write_pos, pending, queued, unwritten>>
    /\ UNCHANGED <<m_send_buffer, m_read_pos, m_new_read_pos, m_is_sending, m_enqueue_guard,
                   m_missed_count, hw, nextMsg, writer>>

\* while (__STREXH(new_write_pos, &m_write_pos))
ReserveSC == Reserve(StrexOK(monitor))

\* faulty variant: the swap does not compare
CasAlways(current, expected) == TRUE

\* compare-and-swap succeeds iff the cursor still holds the value read
CasOK(current, expected) == current = expected

\* the reservation loop ported to read-compute-compare-and-swap-retry
ReserveCAS == Reserve(CasOK(m_write_pos, Top.wp))

\* the copy or the count is done: length, write_pos and i are dead
Done(f) == [f EXCEPT !.pc = "d_ll", !.len = 0, !.wp = 0, !.tmp = 0]

\* m_send_buffer[write_pos++] = str[i]
StoreByte(f) ==
    /\ m_send_buffer' = [m_send_buffer EXCEPT ![f.wp] = StrByte(f.id, f.tmp)]
    /\ unwritten' = unwritten \ {f.wp}
    /\ writer' = [writer EXCEPT ![f.wp] = f.id]

\* the single loop: for (i = 0; i < length; i++)
CopyLinear ==
    /\ At("copy1")
    /\ StoreByte(Top)
    /\ stack' = SetTop(IF Top.tmp + 1 < Top.len
                         THEN [Top EXCEPT !.wp = Top.wp + 1, !.tmp = Top.tmp + 1]
                         ELSE Done(Top))
    /\ UNCHANGED <<m_write_pos, m_read_pos, m_new_read_pos, m_is_sending, m_enqueue_guard,
                   m_missed_count, monitor, hw, nextMsg, pending, queued>>

\* the first of two loops: while (i < till_end_count), then write_pos = 0
CopyToEnd ==
    /\ At("copy2a")
    /\ StoreByte(Top)
    /\ stack' = SetTop(IF Top.wp + 1 < SEND_BUFFER_SIZE
                         THEN [Top EXCEPT !.wp = Top.wp + 1, !.tmp = Top.tmp + 1]
                         ELSE IF Top.tmp + 1 < Top.len
                                THEN [Top EXCEPT !.pc = "copy2b", !.wp = 0, !.tmp = Top.tmp + 1]
                                ELSE Done(Top))
    /\ UNCHANGED <<m_write_pos, m_read_pos, m_new_read_pos, m_is_sending, m_enqueue_guard,
                   m_missed_count, monitor, hw, nextMsg, pending, queued>>

\* the second of two loops: while (i < length)
CopyRest ==
    /\ At("copy2b")
    /\ StoreByte(Top)
    /\ stack' = SetTop(IF Top.tmp + 1 < Top.len
                         THEN [Top EXCEPT !.wp = Top.wp + 1, !.tmp = Top.tmp + 1]
                         ELSE Done(Top))
    /\ UNCHANGED <<m_write_pos, m_read_pos, m_new_read_pos, m_is_sending, m_enqueue_guard,
                   m_missed_count, monitor, hw, nextMsg, pending, queued>>

\* ATOMIC_INCH(m_missed_count): LDREXH
MissedLL ==
    /\ At("m_ll")
    /\ stack' = SetTop([Top EXCEPT !.pc = "m_sc", !.tmp = m_missed_count])
    /\ monitor' = TRUE
    /\ UNCHANGED <<logger, hw, nextMsg, hist>>

\* ATOMIC_INCH(m_missed_count): STREXH
MissedSC ==
    /\ At("m_sc")
    /\ IF StrexOK(monitor)
         THEN /\ m_missed_count' = ATOMIC_INCH(Top.tmp)
              /\ stack' = SetTop(Done([Top EXCEPT !.missed = Top.missed + 1]))
         ELSE /\ m_missed_count' = m_missed_count
              /\ stack' = SetTop([Top EXCEPT !.pc = "m_ll", !.tmp = 0])
    /\ monitor' = FALSE
    /\ UNCHANGED <<m_send_buffer, m_write_pos, m_read_pos, m_new_read_pos, m_is_sending,
                   m_enqueue_guard, hw, nextMsg, hist>>

\* ATOMIC_DECH(m_enqueue_guard): LDREXH
GuardDecLL ==
    /\ At("d_ll")
    /\ stack' = SetTop([Top EXCEPT !.pc = "d_sc", !.tmp = m_enqueue_guard])
    /\ monitor' = TRUE
    /\ UNCHANGED <<logger, hw, nextMsg, hist>>

\* ATOMIC_DECH(m_enqueue_guard): STREXH
GuardDecSC ==
    /\ At("d_sc")
    /\ IF StrexOK(monitor)
         THEN /\ m_enqueue_guard' = ATOMIC_DECH(Top.tmp)
              /\ stack' = SetTop([Top EXCEPT !.pc = "proc", !.tmp = 0, !.id = 0, !.retried = FALSE,
                                    !.base = 0, !.res = 0])
         ELSE /\ m_enqueue_guard' = m_enqueue_guard
              /\ stack' = SetTop([Top EXCEPT !.pc = "d_ll", !.tmp = 0])
    /\ monitor' = FALSE
    /\ UNCHANGED <<m_send_buffer, m_write_pos, m_read_pos, m_new_read_pos, m_is_sending,
                   m_missed_count, hw, nextMsg, hist>>

\* ---- process and startTransfer ---------------------------------------------------

\* if (m_is_sending || isInISR()) return;
Process ==
    /\ At("proc")
    /\ Goto(IF ProcessReturnsEarly(m_is_sending, Top) THEN "ret" ELSE "st_wp")
    /\ UNCHANGED <<logger, monitor, hw, nextMsg, hist>>

\* uint16_t send_pos = m_write_pos
StartSample ==
    /\ At("st_wp")
    /\ stack' = SetTop([Top EXCEPT !.pc = "st_c1", !.sp = m_write_pos])
    /\ UNCHANGED <<logger, monitor, hw, nextMsg, hist>>

\* faulty variant: startTransfer forgets the test for an empty buffer
HasDataAlways(send_pos, rp) == TRUE

HasData(send_pos, rp) == send_pos # rp

\* faulty variant: the guard test is inverted
GuardInverted(guard) == guard # 0

\* faulty variant: startTransfer forgets the guard
GuardIgnored(guard) == TRUE

GuardClear(guard) == guard = 0

\* send_pos != m_read_pos &&
StartTestData ==
    /\ At("st_c1")
    /\ stack' = SetTop(IF HasData(Top.sp, m_read_pos)
                         THEN [Top EXCEPT !.pc = "st_c2"]
                         ELSE [Top EXCEPT !.pc = "st_else", !.sp = 0])
    /\ UNCHANGED <<logger, monitor, hw, nextMsg, hist>>

\* ... m_enqueue_guard == 0
StartTestGuard ==
    /\ At("st_c2")
    /\ stack' = SetTop(IF GuardClear(m_enqueue_guard)
                         THEN [Top EXCEPT !.pc = "st_set"]
                         ELSE [Top EXCEPT !.pc = "st_else", !.sp = 0])
    /\ UNCHANGED <<logger, monitor, hw, nextMsg, hist>>

\* m_is_sending = true
StartSetSending ==
    /\ At("st_set")
    /\ m_is_sending' = TRUE
    /\ Goto("st_cmp")
    /\ UNCHANGED <<m_send_buffer, m_write_pos, m_read_pos, m_new_read_pos, m_enqueue_guard,
                   m_missed_count, monitor, hw, nextMsg, hist>>

\* faulty variant: startTransfer forgets the wrapped case
ContiguousAlways(send_pos, rp) == TRUE

Contiguous(send_pos, rp) == send_pos > rp

\* if (send_pos > m_read_pos) m_new_read_pos = send_pos; else m_new_read_pos = 0;
StartSetNewReadPos ==
    /\ At("st_cmp")
    /\ IF Contiguous(Top.sp, m_read_pos)
         THEN /\ m_new_read_pos' = Top.sp
              /\ Goto("st_hal1")
         ELSE /\ m_new_read_pos' = 0
              /\ Goto("st_hal2")
    /\ UNCHANGED <<m_send_buffer, m_write_pos, m_read_pos, m_is_sending, m_enqueue_guard,
                   m_missed_count, monitor, hw, nextMsg, hist>>

\* HAL_UART_Transmit_DMA(huart, pData, Size): HAL_BUSY while a transfer is in flight
HAL_UART_Transmit_DMA(start, size) ==
    hw' = IF hw.busy THEN hw
          ELSE [busy |-> TRUE, start |-> start, len |-> size, drained |-> FALSE,
                sampled |-> Top.sp, pending |-> m_new_read_pos]

\* HAL_UART_Transmit_DMA(m_uart, &m_send_buffer[m_read_pos], send_pos - m_read_pos)
StartTransmitTo ==
    /\ At("st_hal1")
    /\ HAL_UART_Transmit_DMA(m_read_pos, (Top.sp - m_read_pos) % U16)
    /\ stack' = SetTop([Top EXCEPT !.pc = "ret", !.sp = 0])
    /\ UNCHANGED <<logger, monitor, nextMsg, hist>>

\* HAL_UART_Transmit_DMA(m_uart, &m_send_buffer[m_read_pos], SEND_BUFFER_SIZE - m_read_pos)
StartTransmitToEnd ==
    /\ At("st_hal2")
    /\ HAL_UART_Transmit_DMA(m_read_pos, (SEND_BUFFER_SIZE - m_read_pos) % U16)
    /\ stack' = SetTop([Top EXCEPT !.pc = "ret", !.sp = 0])
    /\ UNCHANGED <<logger, monitor, nextMsg, hist>>

\* else m_is_sending = false
StartNothing ==
    /\ At("st_else")
    /\ m_is_sending' = FALSE
    /\ Goto("ret")
    /\ UNCHANGED <<m_send_buffer, m_write_pos, m_read_pos, m_new_read_pos, m_enqueue_guard,
                   m_missed_count, monitor, hw, nextMsg, hist>>

\* ---- the transmitter and its completion interrupt -----------------------------------

\* the DMA stream reads the bytes of the requested range out of the buffer
DmaDrain ==
    /\ hw.busy /\ ~hw.drained
    /\ pending' = SubSeq(pending, hw.len + 1, Len(pending))
    /\ hw' = [hw EXCEPT !.drained = TRUE]
    /\ UNCHANGED <<logger, monitor, stack, nextMsg, queued, unwritten, writer>>

\* the transfer-complete interrupt fires and enters transferCompletedCallback
TxComplete ==
    /\ hw.busy /\ hw.drained
    /\ ~Top.masks
    /\ Len(stack) <= MaxDepth
    /\ stack' = Append(Interrupted, [Frame("dma", TRUE, "cb_set") EXCEPT
                                       !.target = hw.pending])
    /\ hw' = HwIdle
    /\ monitor' = FALSE
    /\ UNCHANGED <<logger, nextMsg, hist>>

\* faulty variant: the callback calls process() in place of startTransfer()
CallbackCallsProcess == "proc"

\* logger.startTransfer(): where the callback continues after the assignment
CallbackCalls == "st_wp"

\* logger.m_read_pos = logger.m_new_read_pos
CallbackSetReadPos ==
    /\ At("cb_set")
    /\ m_read_pos' = m_new_read_pos
    /\ LET n == (m_new_read_pos - m_read_pos) % Cap
       IN  /\ queued' = queued - n
           /\ writer' = [i \in 0..(Cap-1) |-> IF i \in Range(m_read_pos, n) THEN 0 ELSE writer[i]]
    /\ stack' = SetTop([Top EXCEPT !.pc = CallbackCalls, !.target = 0,
                          !.chain = (m_new_read_pos # m_write_pos /\ m_enqueue_guard = 0)])
    /\ UNCHANGED <<m_send_buffer, m_write_pos, m_new_read_pos, m_is_sending, m_enqueue_guard,
                   m_missed_count, monitor, hw, nextMsg, pending, unwritten>>

\* return to the main loop, or exception return to the preempted context
Return ==
    /\ At("ret")
    /\ IF Top.kind = "main"
         THEN /\ stack' = SetTop(Frame("main", FALSE, "idle"))
              /\ monitor' = monitor
         ELSE /\ stack' = SubSeq(stack, 1, Len(stack) - 1)
              /\ monitor' = FALSE
    /\ UNCHANGED <<logger, hw, nextMsg, hist>>

\* ---- specification -----------------------------------------------------------------

Next ==
    \/ MainEnqueue \/ MainProcess \/ IsrEnqueue
    \/ GuardIncLL \/ GuardIncSC
    \/ ReserveLL \/ ReserveTest \/ ReserveCompute \/ ReserveSC
    \/ CopyLinear \/ CopyToEnd \/ CopyRest
    \/ MissedLL \/ MissedSC
    \/ GuardDecLL \/ GuardDecSC
    \/ Process
    \/ StartSample \/ StartTestData \/ StartTestGuard \/ StartSetSending
    \/ StartSetNewReadPos \/ StartTransmitTo \/ StartTransmitToEnd \/ StartNothing
    \/ DmaDrain \/ TxComplete \/ CallbackSetReadPos
    \/ Return

Spec == Init /\ [][Next]_vars

\* the program with the reservation loop on compare-and-swap
CasNext ==
    \/ MainEnqueue \/ MainProcess \/ IsrEnqueue
    \/ GuardIncLL \/ GuardIncSC
    \/ ReserveLL \/ ReserveTest \/ ReserveCompute \/ ReserveCAS
    \/ CopyLinear \/ CopyToEnd \/ CopyRest
    \/ MissedLL \/ MissedSC
    \/ GuardDecLL \/ GuardDecSC
    \/ Process
    \/ StartSample \/ StartTestData \/ StartTestGuard \/ StartSetSending
    \/ StartSetNewReadPos \/ StartTransmitTo \/ StartTransmitToEnd \/ StartNothing
    \/ DmaDrain \/ TxComplete \/ CallbackSetReadPos
    \/ Return

CasSpec == InitAnywhere /\ [][CasNext]_vars

\* the same program, observed from an empty buffer at any position
SpecAnywhere == InitAnywhere /\ [][Next]_vars

\* the instructions of the running context
Run ==
    \/ GuardIncLL \/ GuardIncSC
    \/ ReserveLL \/ ReserveTest \/ ReserveCompute \/ ReserveSC
    \/ CopyLinear \/ CopyToEnd \/ CopyRest
    \/ MissedLL \/ MissedSC
    \/ GuardDecLL \/ GuardDecSC
    \/ Process
    \/ StartSample \/ StartTestData \/ StartTestGuard \/ StartSetSending
    \/ StartSetNewReadPos \/ StartTransmitTo \/ StartTransmitToEnd \/ StartNothing
    \/ CallbackSetReadPos
    \/ Return

\* The processor keeps executing the running context; nothing is assumed of
\* the transmitter or of the main loop's polling.
RunSpec == Spec /\ WF_vars(Run)

\* The processor keeps executing, a started transfer completes and raises its
\* interrupt, and the main loop keeps polling process() (logger.h: "Need to poll
\* it frequently, so put it into the main loop").
FairSpec ==
    /\ Spec
    /\ WF_vars(Run)
    /\ WF_vars(DmaDrain)
    /\ WF_vars(TxComplete)
    /\ WF_vars(MainProcess)

TypeOK ==
    /\ m_write_pos \in 0..(Cap-1)
    /\ m_read_pos \in 0..(Cap-1)
    /\ m_new_read_pos \in 0..(Cap-1)
    /\ m_enqueue_guard \in 0..MaxMsgs
    /\ m_missed_count \in 0..MaxMsgs

\* ---- properties ---------------------------------------------------------------------

\* the frames below the running one: the preempted contexts
Preempted == { stack[k] : k \in 1..(Len(stack) - 1) }

\* the running frame executed an instruction (no handler entered or left)
FrameStep == Len(stack') = Len(stack) /\ stack' # stack

\* the bytes of the requested range, as they stand in the buffer
InRange == [k \in 1..hw.len |-> m_send_buffer[(hw.start + k - 1) % Cap]]

\* the next n reserved bytes the transmitter is to take
Oldest(n) == [k \in 1..n |-> pending[k]]

\* C1: the storage ranges written by two enqueue calls whose data is not yet
\* transmitted are disjoint: an index that an enqueue call wrote is written by
\* no other call before read_pos has advanced over it, whatever the nesting of
\* the calls.
C1_DisjointWrites ==
    [][\A i \in 0..(Cap-1) :
          (writer'[i] # writer[i] /\ writer'[i] # 0) => writer[i] = 0]_vars

\* a call that was preempted inside its reservation loop and repeated it has
\* copied its bytes next to the untransmitted bytes of another call
C1_Witness ==
    /\ Top.pc = "d_ll" /\ Top.retried
    /\ \E i, j \in 0..(Cap-1) : writer[i] = Top.id /\ writer[j] # 0 /\ writer[j] # Top.id

\* C2: from the call of HAL_UART_Transmit_DMA until the transmitter has taken
\* the bytes, no byte of the requested range is reserved but not yet copied,
\* and the range holds, byte for byte, the oldest reserved bytes not yet taken.
C2_HandedRangeWritten ==
    (hw.busy /\ ~hw.drained) =>
        /\ Range(hw.start, hw.len) \cap unwritten = {}
        /\ hw.len <= Len(pending)
        /\ InRange = Oldest(hw.len)

\* the completion callback chained a transfer while it preempts an enqueue call
\* that is between its guard decrement and its process()
C2_Witness ==
    /\ hw.busy /\ ~hw.drained /\ Top.kind = "dma"
    /\ \E f \in Preempted : f.pc = "proc"

\* C3: what the transmitter takes is always the oldest reserved bytes not yet
\* taken, byte for byte, and once the buffer is empty with no transfer or
\* completion outstanding nothing reserved is left untaken: the transmitted
\* stream is the reserved messages, each once and whole, in reservation order.
C3_StreamInOrder ==
    /\ [][(hw.busy /\ ~hw.drained /\ hw'.drained) =>
             (hw.len <= Len(pending) /\ InRange = Oldest(hw.len))]_vars
    /\ []((/\ m_read_pos = m_write_pos
           /\ ~hw.busy
           /\ \A k \in 1..Len(stack) : stack[k].pc # "cb_set")
          => pending = << >>)

\* the transmitter took one range holding bytes of two messages
C3_Witness ==
    /\ hw.busy /\ hw.drained
    /\ \E i, j \in Range(hw.start, hw.len) : m_send_buffer[i][1] # m_send_buffer[j][1]

\* the running frame, an enqueue call declined for lack of space, executes an
\* instruction of the call
DeclinedStep == FrameStep /\ Top.pc # "ret" /\ (Top.declined \/ Top'.declined)

\* C4 as stated: a call whose length exceeds the available space at its
\* store-conditional writes no byte and leaves write_pos, read_pos and
\* new_read_pos unchanged.
C4_Original ==
    [][DeclinedStep =>
          UNCHANGED <<m_send_buffer, m_write_pos, m_read_pos, m_new_read_pos>>]_vars

\* C4 amended: such a call writes no byte, leaves write_pos and read_pos
\* unchanged and increments missed_count exactly once; new_read_pos is changed
\* by the call only in its trailing process(), in the main loop, when that
\* starts a transfer of the data already queued.
C4_DeclinedLeavesBuffer ==
    /\ [][DeclinedStep =>
             /\ UNCHANGED <<m_send_buffer, m_write_pos, m_read_pos>>
             /\ (m_new_read_pos' # m_new_read_pos => (Top.kind = "main" /\ At("st_cmp")))
             /\ m_missed_count' = m_missed_count + (Top'.missed - Top.missed)]_vars
    /\ [](\A k \in 1..Len(stack) :
             stack[k].declined =>
                stack[k].missed = (IF stack[k].pc \in {"m_ll", "m_sc"} THEN 0 ELSE 1))

\* a declined call has finished
C4_Witness == Top.declined /\ At("ret") /\ Top.missed = 1 /\ m_missed_count >= 1

\* C5: HAL_UART_Transmit_DMA is never called while a transfer it started has
\* not yet raised its completion interrupt.
C5_SingleTransfer ==
    [][(FrameStep /\ Top.pc \in {"st_hal1", "st_hal2"}) => ~hw.busy]_vars

\* the callback, preempting a handler that preempted the main loop, has
\* chained the next transfer
C5_Witness == hw.busy /\ Top.kind = "dma" /\ At("ret") /\ Len(stack) = 3

\* C8: read_pos is changed only by the completion callback, to the
\* new_read_pos recorded for the transfer that completed, and it never passes
\* write_pos: it is never advanced over more bytes than were reserved.
C8_ReadCursor ==
    /\ [](/\ queued >= 0
          /\ m_write_pos = (m_read_pos + queued) % Cap)
    /\ [][m_read_pos' # m_read_pos =>
             (Top.kind = "dma" /\ At("cb_set") /\ m_read_pos' = Top.target)]_vars

\* the callback has just moved read_pos off 0, with data left behind it
C8_Witness ==
    /\ Top.kind = "dma" /\ At("st_wp")
    /\ m_read_pos # 0 /\ m_read_pos # m_write_pos

KickPcs == {"proc", "st_wp", "st_c1", "st_c2", "st_set", "st_cmp", "st_hal1", "st_hal2", "st_else"}

\* C9: an instruction of process() (called directly or at the end of enqueue)
\* changes nothing of read_pos, new_read_pos, write_pos, the buffer, is_sending
\* and the transmitter when a transfer is in flight, or the caller is a handler,
\* or the guard is not zero, or read_pos equals write_pos.
C9_KickNoOp ==
    [][(/\ FrameStep /\ Top.kind # "dma" /\ Top.pc \in KickPcs
        /\ (hw.busy \/ Top.kind = "isr" \/ m_enqueue_guard # 0 \/ m_read_pos = m_write_pos))
       => UNCHANGED <<m_read_pos, m_new_read_pos, m_write_pos, m_send_buffer,
                      m_is_sending, hw>>]_vars

\* a handler's process() returned with data pending and no transfer in flight
C9_Witness ==
    /\ Top.kind = "isr" /\ At("ret")
    /\ m_read_pos # m_write_pos /\ ~hw.busy /\ ~m_is_sending

\* C10: a transfer request starts at read_pos, is at least one byte long and
\* ends inside the buffer; it is [read_pos, send_pos) with new_read_pos =
\* send_pos when send_pos > read_pos, and [read_pos, SEND_BUFFER_SIZE) with
\* new_read_pos = 0 otherwise; new_read_pos keeps that value until the
\* callback of the transfer has read it.
C10_TransferRange ==
    /\ hw.busy =>
          /\ hw.start = m_read_pos
          /\ hw.len >= 1
          /\ hw.start + hw.len <= Cap
          /\ IF hw.sampled > hw.start
               THEN hw.len = hw.sampled - hw.start /\ hw.pending = hw.sampled
               ELSE hw.len = Cap - hw.start /\ hw.pending = 0
          /\ m_new_read_pos = hw.pending
    /\ \A k \in 1..Len(stack) :
          stack[k].pc = "cb_set" => m_new_read_pos = stack[k].target

\* a transfer to the end of the buffer, the rest left for the next one
C10_Witness == hw.busy /\ hw.sampled # 0 /\ hw.sampled < hw.start

\* the system is at rest: the main loop is between calls, no handler is active
\* and no transfer is in flight
Quiescent == Len(stack) = 1 /\ At("idle") /\ ~hw.busy

\* C6 as stated: no further process() or enqueue call is needed, so when the
\* system is at rest every reserved byte has been handed to the transmitter.
C6_Original == Quiescent => pending = << >>

\* bytes of the enqueue call id are reserved and not yet taken by the transmitter
Waiting(id) == \E k \in 1..Len(pending) : pending[k][1] = id

\* C6 amended: when the main loop keeps polling process(), every enqueue call
\* that reserved its bytes has all of them handed to the transmitter.
C6_EnqueuedIsHanded ==
    \A id \in 1..MaxMsgs : Waiting(id) ~> ~Waiting(id)

\* a handler enqueued while no transfer was in flight: nothing starts before
\* the main loop polls
C6_Witness ==
    /\ Quiescent /\ ~m_is_sending
    /\ pending # << >>

\* C7: when the main loop keeps polling process() and transfers complete,
\* all reserved bytes are eventually handed to the transmitter, also after the
\* callback declined to chain because the guard was not zero.
C7_AllBytesHanded == (pending # << >>) ~> (pending = << >>)

\* the callback found data but the guard raised, and resets m_is_sending
C7_Witness ==
    /\ Top.kind = "dma" /\ At("st_else")
    /\ m_enqueue_guard # 0 /\ m_read_pos # m_write_pos

\* C11: when, after the callback has set read_pos to new_read_pos, read_pos
\* differs from write_pos and the guard is 0, the callback itself starts the
\* next transfer, at read_pos, before it returns, and no other context starts
\* a transfer while the callback is active; when read_pos still equals
\* write_pos as the callback returns, m_is_sending is false and no transfer is
\* in flight.
C11_CallbackChains ==
    /\ []((Top.kind = "dma" /\ At("ret")) =>
            /\ Top.chain => (hw.busy /\ m_is_sending /\ hw.start = m_read_pos)
            /\ m_read_pos = m_write_pos => (~hw.busy /\ ~m_is_sending))
    /\ [][(~hw.busy /\ hw'.busy /\ \E k \in 1..Len(stack) : stack[k].kind = "dma")
            => Top.kind = "dma"]_vars

\* the pending data wrapped: the transfer to the end of the buffer completed
\* and its callback has chained the transfer of the bytes from index 0
C11_Witness ==
    /\ Top.kind = "dma" /\ At("ret") /\ Top.chain
    /\ hw.busy /\ hw.start = 0 /\ m_read_pos = 0 /\ hw.len >= 1

\* the running frame's store-conditional on m_write_pos succeeds and reserves
ReserveStep == FrameStep /\ At("r_sc") /\ m_write_pos' # m_write_pos

\* C12: the bytes reserved and not yet freed, which is (write_pos - read_pos)
\* mod SEND_BUFFER_SIZE, never exceed SEND_BUFFER_SIZE - 1; a reservation
\* that succeeds takes no more than the space available, computed from
\* write_pos and read_pos as they are at its store-conditional, and does not
\* make write_pos equal to read_pos. This covers a callback that advances
\* read_pos between the load-linked and the store-conditional, also between
\* the two reads of m_read_pos in availableSpace.
C12_OneSlotEmpty ==
    /\ [](/\ queued <= Cap - 1
          /\ queued = (m_write_pos - m_read_pos) % Cap)
    /\ [][ReserveStep =>
             /\ Top.len <= availableSpace(m_write_pos, m_read_pos)
             /\ m_write_pos' # m_read_pos]_vars

\* the callback advanced read_pos to 0 between the two reads of m_read_pos:
\* the frame is at its store-conditional with a new_write_pos computed from
\* read_pos - write_pos - 1 wrapped around, for a message longer than the
\* space available
C12_Witness ==
    /\ At("r_sc") /\ Top.nwp # Top.wp /\ Top.wp = m_write_pos
    /\ Top.len > availableSpace(m_write_pos, m_read_pos)

\* C13: an enqueue call has incremented missed_count if and only if its
\* length exceeded the space available at its reservation, whatever the
\* length, 0 included.
C13_MissedIffNoSpace ==
    \A k \in 1..Len(stack) :
        stack[k].pc \notin {"m_ll", "m_sc"} =>
            ((stack[k].missed = 1) <=> stack[k].declined)

\* a call of length 0 has incremented missed_count
C13_Witness ==
    /\ Top.kind # "dma" /\ At("ret")
    /\ Top.missed = 1 /\ ~Top.declined /\ m_missed_count >= 1

\* C14: write_pos stays inside the buffer and changes only at the
\* store-conditional of an enqueue call, to (write_pos + length) mod
\* SEND_BUFFER_SIZE for the length of that call, 1 <= length <=
\* SEND_BUFFER_SIZE - 1, the call going on to copy its bytes; the bytes
\* reserved grow by that length, so write_pos does not retreat. No
\* instruction of process(), startTransfer or the callback changes it.
C14_WriteCursorAdvances ==
    /\ [](m_write_pos \in 0..(Cap-1))
    /\ [][m_write_pos' # m_write_pos =>
             /\ FrameStep /\ At("r_sc") /\ Top.kind # "dma"
             /\ Top.len \in 1..(Cap-1)
             /\ m_write_pos' = (m_write_pos + Top.len) % Cap
             /\ queued' = queued + Top.len
             /\ Top'.pc \in {"copy1", "copy2a"}]_vars
    /\ [][(FrameStep /\ (Top.kind = "dma" \/ Top.pc \in KickPcs))
             => m_write_pos' = m_write_pos]_vars

\* a reservation took write_pos past the end of the buffer
C14_Witness ==
    /\ At("copy2a") /\ Top.tmp = 0
    /\ m_write_pos = (Top.wp + Top.len) % Cap /\ m_write_pos < Top.wp

\* the positions of an enqueue call after its guard increment and before its
\* guard decrement
GuardHeldPcs ==
    {"r_ll", "r_a1", "r_a2", "r_sc", "copy1", "copy2a", "copy2b", "m_ll", "m_sc", "d_ll", "d_sc"}

\* C15: the guard equals the number of enqueue calls, in the main loop and in
\* the nested handlers, that have incremented it and not yet decremented it;
\* when it is 0, every byte of [read_pos, write_pos) has been copied by the
\* call that reserved it; and it is 0 when no enqueue call is in progress.
C15_GuardCounts ==
    /\ m_enqueue_guard = Cardinality({k \in 1..Len(stack) : stack[k].pc \in GuardHeldPcs})
    /\ m_enqueue_guard = 0 =>
          \A i \in Range(m_read_pos, queued) :
              /\ i \notin unwritten
              /\ writer[i] # 0
              /\ m_send_buffer[i][1] = writer[i]
    /\ (Len(stack) = 1 /\ At("idle")) => m_enqueue_guard = 0

\* two nested enqueue calls hold the guard, bytes reserved and not yet copied
C15_Witness ==
    /\ m_enqueue_guard = 2 /\ unwritten # {}
    /\ Top.pc \in GuardHeldPcs

\* the frame is an enqueue call that reserved res bytes at base and has copied them
Copied(f) == f.res > 0 /\ f.pc \in {"d_ll", "d_sc"}

\* C16: a reservation records the old write_pos w and the length, and moves
\* write_pos to (w + length) mod SEND_BUFFER_SIZE; once the call has copied,
\* and as long as it has not returned, m_send_buffer[(w + i) mod
\* SEND_BUFFER_SIZE] is byte i of its message for every i < length, and at no
\* time has the call written an index outside that range.
C16_CopiedInPlace ==
    /\ [](\A k \in 1..Len(stack) :
             LET f == stack[k]
             IN  /\ Copied(f) =>
                       \A i \in 0..(f.res - 1) :
                           m_send_buffer[(f.base + i) % Cap] = StrByte(f.id, i)
                 /\ f.id # 0 =>
                       \A j \in 0..(Cap-1) :
                           writer[j] = f.id => j \in Range(f.base, f.res))
    /\ [][ReserveStep =>
             /\ Top'.base = m_write_pos /\ Top'.res = Top.len
             /\ m_write_pos' = (m_write_pos + Top.len) % Cap]_vars
    /\ [][\A j \in 0..(Cap-1) :
             m_send_buffer'[j] # m_send_buffer[j] =>
                (FrameStep /\ Top.res > 0 /\ j \in Range(Top.base, Top.res))]_vars

\* the reserved range crossed the end of the buffer and was copied in two loops
C16_Witness ==
    /\ Copied(Top) /\ Top.res = 2 /\ Top.base = Cap - 1
    /\ m_send_buffer[Cap - 1] = StrByte(Top.id, 0)
    /\ m_send_buffer[0] = StrByte(Top.id, 1)

\* the running frame, an enqueue call, stores one byte at its local write_pos
StoreStep == FrameStep /\ Top.pc \in {"copy1", "copy2a", "copy2b"}

\* C17: an enqueue call stores a byte only inside its own reservation, at an
\* index that is outside the range of the transfer in flight, that no call has
\* written since read_pos last passed it, and that no preempted call has
\* reserved; what a call wrote is removed from the record only when the
\* callback advances read_pos over it.
C17_NoOverwrite ==
    /\ [][StoreStep =>
             /\ Top.wp \in Range(Top.base, Top.res)
             /\ hw.busy => Top.wp \notin Range(hw.start, hw.len)
             /\ writer[Top.wp] = 0
             /\ \A f \in Preempted : Top.wp \notin Range(f.base, f.res)
             /\ m_send_buffer'[Top.wp] = StrByte(Top.id, Top.tmp)]_vars
    /\ [][\A j \in 0..(Cap-1) :
             (writer[j] # 0 /\ writer'[j] # writer[j]) =>
                (At("cb_set") /\ writer'[j] = 0 /\ m_read_pos' # m_read_pos)]_vars

\* a call has stored its byte next to the range of a transfer in flight that
\* holds the bytes of another call
C17_Witness ==
    /\ Copied(Top) /\ writer[Top.base] = Top.id
    /\ hw.busy /\ ~hw.drained /\ Top.base \notin Range(hw.start, hw.len)
    /\ \E j \in Range(hw.start, hw.len) : writer[j] \notin {0, Top.id}

StartTransferPcs == {"st_wp", "st_c1", "st_c2", "st_set", "st_cmp", "st_hal1", "st_hal2", "st_else"}

\* some context, running or preempted, is inside startTransfer
InStartTransfer == \E k \in 1..Len(stack) : stack[k].pc \in StartTransferPcs

\* the completion interrupt was taken and its callback has not yet called
\* startTransfer
InCallbackEntry == \E k \in 1..Len(stack) : stack[k].pc = "cb_set"

\* C18 as stated: m_is_sending is true while a transfer is in flight, and
\* outside startTransfer it is true only if a transfer is in flight.
C18_Original ==
    /\ hw.busy => m_is_sending
    /\ ~InStartTransfer => (m_is_sending => hw.busy)

\* C18 amended: m_is_sending is true while a transfer is in flight; when no
\* context is inside startTransfer and no callback is between its entry and
\* its call of startTransfer, m_is_sending is true only if a transfer is in
\* flight; so with the main loop between calls and no handler active,
\* m_is_sending without a transfer in flight does not occur.
C18_SendingTracksTransfer ==
    /\ hw.busy => m_is_sending
    /\ (~InStartTransfer /\ ~InCallbackEntry) => (m_is_sending => hw.busy)
    /\ (Len(stack) = 1 /\ At("idle") /\ m_is_sending) => hw.busy

\* the transfer has completed and the callback, preempted before it called
\* startTransfer, has not yet touched m_is_sending
C18_Witness ==
    /\ m_is_sending /\ ~hw.busy /\ ~InStartTransfer
    /\ Top.kind = "isr" /\ \E f \in Preempted : f.pc = "cb_set"

\* the main loop is between calls and no handler is active
AllReturned == Len(stack) = 1 /\ At("idle")

\* C19: with the processor executing and nothing assumed of the transmitter,
\* every call of enqueue and process() returns; the reservation loop of an
\* enqueue call repeats only if a handler was entered between its load-linked
\* and its store-conditional, and a call not interrupted there leaves the
\* loop at its first store-conditional.
C19_NeverBlocks ==
    /\ (~AllReturned) ~> AllReturned
    /\ [][(FrameStep /\ At("r_sc")) =>
             IF Top.intr THEN Top'.pc = "r_ll" /\ Top'.retried
                         ELSE Top'.pc \in {"copy1", "copy2a", "m_ll"} /\ Top'.retried = Top.retried]_vars
    /\ [](\A k \in 1..Len(stack) :
             (stack[k].pc \in {"r_a1", "r_a2", "r_sc"} /\ k < Len(stack)) => stack[k].intr)

\* a call whose reservation loop was interrupted once has repeated it and left
\* it at the second store-conditional
C19_Witness ==
    /\ Top.retried /\ ~Top.intr
    /\ Top.pc \in {"copy1", "copy2a", "m_ll"}

\* C20 as stated: with the reservation loop on compare-and-swap, the bytes
\* reserved and not yet freed still never exceed SEND_BUFFER_SIZE - 1, as
\* with LDREXH/STREXH.
C20_Original == queued < Cap

\* C20 amended: with the reservation loop on compare-and-swap, a reservation
\* takes more than the space available at its swap only if read_pos changed
\* between the two reads of m_read_pos in availableSpace, and only such a
\* reservation takes the bytes reserved and not yet freed above
\* SEND_BUFFER_SIZE - 1.
C20_CasSafeUnlessTorn ==
    [][(ReserveStep /\ ~Top.torn) =>
          /\ Top.len <= availableSpace(m_write_pos, m_read_pos)
          /\ queued < Cap => queued' < Cap]_vars

\* the swap has accepted a reservation computed from two values of read_pos:
\* write_pos has caught up with read_pos over bytes not yet transmitted
C20_Witness ==
    /\ Top.pc \in {"copy1", "copy2a"} /\ Top.tmp = 0
    /\ queued = Cap /\ m_write_pos = m_read_pos

====
